---- MODULE Spec2Model ----
(***************************************************************************)
(* RatelimitedEngine (kani/ext/ratelimits/engine.py): a wrapper engine     *)
(* that makes every predict()/stream() call pass a request-rate limiter,   *)
(* a token-rate limiter and a concurrency semaphore before the wrapped     *)
(* engine is invoked.                                                      *)
(*                                                                         *)
(* The two rate limiters are aiolimiter.AsyncLimiter objects and the gate  *)
(* is an asyncio.Semaphore (or contextlib.nullcontext).  Their behaviour   *)
(* is modelled as those libraries implement it, at the places where        *)
(* engine.py constructs and calls them.                                    *)
(*                                                                         *)
(* Scheduling is asyncio's: a task runs without interruption between two   *)
(* suspension points, so one action is one run of a task from the point    *)
(* where it resumes to the point where it next suspends or ends.           *)
(*                                                                         *)
(* Time is counted in ticks of half a default period (30 s).               *)
(***************************************************************************)
EXTENDS Integers, Sequences, FiniteSets, TLC

\* ---------------------------------------------------------------- bounds
NumTasks == 2          \* concurrent callers
GateTasks == 3         \* concurrent callers of an engine with the gate only

\* ---------------------------------------------------- program constants
RpmPeriod == 2         \* rpm_period: float = 60, in ticks
TpmPeriod == 2         \* tpm_period: float = 60, in ticks

Tasks == 1..NumTasks
GateCallers == 1..GateTasks
AllTasks == Tasks \cup GateCallers

\* An optional constructor argument: None is the empty set, a value v is {v}.
None == {}
Some(v) == {v}
Val(o) == CHOOSE v \in o : TRUE

\* The constructor arguments the model is run with: every limit set, only
\* max_concurrency set, nothing set; and one rate limit set.
Config(mc, rl, tl) ==
  [max_concurrency |-> mc, rpm_limit |-> rl, tpm_limit |-> tl]
Configurations ==
  { Config(Some(1), Some(2), Some(2)),
    Config(Some(1), None, None),
    Config(None, None, None) }
OneLimiterConfigurations ==
  { Config(Some(1), Some(2), None),
    Config(Some(1), None, Some(2)) }

\* A message is modelled by the length the wrapped engine assigns to it, a
\* function set by the reserve the wrapped engine assigns to it.
Msg(n) == [len |-> n]
NoFunctions == [reserve |-> 0]
Fns(n) == [reserve |-> n]

\* The requests callers submit: token costs 1, 2 and 3.
Requests ==
  { [messages |-> <<Msg(1)>>, functions |-> NoFunctions],
    [messages |-> <<Msg(1), Msg(1)>>, functions |-> NoFunctions],
    [messages |-> <<Msg(1), Msg(1)>>, functions |-> Fns(1)] }

Max(a, b) == IF a >= b THEN a ELSE b
Min(a, b) == IF a <= b THEN a ELSE b

RECURSIVE SumTo(_, _)
SumTo(s, k) == IF k = 0 THEN 0 ELSE s[k] + SumTo(s, k - 1)

Remove(s, x) == SelectSeq(s, LAMBDA y : y # x)
InSeq(s, x) == \E i \in 1..Len(s) : s[i] = x

VARIABLES
  max_concurrency,        \* the constructor argument (None or Some(N))
  rpm_limiter,            \* self.rpm_limiter
  tpm_limiter,            \* self.tpm_limiter
  concurrency_semaphore,  \* self.concurrency_semaphore
  pc,                     \* where each caller's current call stands
  kind,                   \* "predict" or "stream"
  req,                    \* the call's messages and functions
  n_toks,                 \* the token cost computed by _ratelimit_ctx
  trail,                  \* history: the admission steps the call has passed
  deducted,               \* history: units the call deducted from each limiter
  slots,                  \* history: slots the call acquired and released
  due_in                  \* history, kept by SpecTimed: ticks from now to the
                          \*   time (c - a) / (limit / period) after the call
                          \*   arrived at the limiter it waits on

vars == <<max_concurrency, rpm_limiter, tpm_limiter, concurrency_semaphore,
          pc, kind, req, n_toks, trail, deducted, slots, due_in>>

\* ------------------------------------------------- the wrapped engine
message_len(m) == m.len
function_token_reserve(f) == f.reserve

RECURSIVE SumLen(_)
SumLen(ms) == IF ms = <<>> THEN 0 ELSE message_len(Head(ms)) + SumLen(Tail(ms))

\* Mutant of TokenCost: the functions' reserve is left out.
TokenCost_messages_only(r) == SumLen(r.messages)

\* n_toks = function_token_reserve(functions) + sum(message_len(m) ...)
TokenCost(r) == function_token_reserve(r.functions) + SumLen(r.messages)

\* ------------------------------------------- aiolimiter.AsyncLimiter
\* level: units in the leaky bucket (available = max_rate - level).
\* since_check: loop.time() - _last_check.
\* waiters: the tasks suspended in acquire(), in arrival order.
\* log, spent_before: history, kept when `observed`: log[k] is the amount
\*   admitted k-1 ticks ago (log[1]: in the current tick), for the current
\*   tick and the time_period ticks before it; spent_before is the amount
\*   admitted before the last time_period ticks, saturated at max_rate.
NoLimiter == [cls |-> "NoneType"]
AsyncLimiter(max_rate, time_period, observed) ==
  [cls |-> "AsyncLimiter", max_rate |-> max_rate, time_period |-> time_period,
   level |-> 0, since_check |-> 0, waiters |-> <<>>,
   observed |-> observed, log |-> [k \in 1..(time_period + 1) |-> 0],
   spent_before |-> 0]

rate_per_sec(lim) == lim.max_rate \div lim.time_period

\* Mutant of leak: the level is not kept from falling below 0.
leak_unbounded(lim) ==
  [lim EXCEPT !.level = IF @ # 0
                        THEN @ - lim.since_check * rate_per_sec(lim)
                        ELSE @,
              !.since_check = 0]

\* _leak(): drip out the capacity of the time elapsed since the last check.
leak(lim) ==
  [lim EXCEPT !.level = IF @ # 0
                        THEN Max(@ - lim.since_check * rate_per_sec(lim), 0)
                        ELSE @,
              !.since_check = 0]

has_capacity(lim, amount) == leak(lim).level + amount <= lim.max_rate

Admitted(lim, amount) ==
  IF lim.observed THEN [lim EXCEPT !.log[1] = @ + amount] ELSE lim

\* Mutant of acquire_loop: the amount is put in the bucket before the task
\* is known to be admitted.
acquire_loop_speculative(lim, task, amount) ==
  IF has_capacity(lim, amount)
  THEN [res |-> "ok",
        lim |-> Admitted([leak(lim) EXCEPT !.level = @ + amount,
                                           !.waiters = Remove(@, task)],
                         amount)]
  ELSE [res |-> "wait",
        lim |-> [leak(lim) EXCEPT !.level = IF InSeq(lim.waiters, task) THEN @
                                            ELSE @ + amount,
                                  !.waiters = IF InSeq(@, task) THEN @
                                              ELSE Append(@, task)]]

\* One pass of acquire()'s loop: admitted if there is capacity, else the
\* task suspends (until its timer or another task wakes it).
acquire_loop(lim, task, amount) ==
  IF has_capacity(lim, amount)
  THEN [res |-> "ok",
        lim |-> Admitted([leak(lim) EXCEPT !.level = @ + amount,
                                           !.waiters = Remove(@, task)],
                         amount)]
  ELSE [res |-> "wait",
        lim |-> [leak(lim) EXCEPT !.waiters = IF InSeq(@, task) THEN @
                                              ELSE Append(@, task)]]

\* Mutant of acquire: no check of the amount against the capacity.
acquire_unchecked(lim, task, amount) == acquire_loop(lim, task, amount)

\* acquire(amount): ValueError("Can't acquire more than the maximum
\* capacity") when amount > max_rate, else the loop.
acquire(lim, task, amount) ==
  IF amount > lim.max_rate
  THEN [res |-> "ValueError", lim |-> lim]
  ELSE acquire_loop(lim, task, amount)

\* Mutant of needed: the waker is set for the whole amount, as if the bucket
\* were full.
needed_whole_amount(lim, amount) == amount

\* _wake_next(): needed = amount - self.max_rate + self._level; the first
\* waiter's future is set when needed <= 0, else the waker is set to fire
\* needed / rate_per_sec from now.
needed(lim, amount) == amount - lim.max_rate + leak(lim).level

\* The caller is cancelled while suspended in acquire().
acquire_cancelled(lim, task) == [lim EXCEPT !.waiters = Remove(@, task)]

\* One tick of the event loop's clock.  The level is kept as of now: the
\* leak of the tick is taken at once, which max(level - elapsed * rate, 0)
\* makes the same as taking it at the next check.
Shift(lim) ==
  IF lim.observed
  THEN [lim EXCEPT
          !.spent_before = Min(@ + lim.log[lim.time_period], lim.max_rate),
          !.log = [k \in 1..(lim.time_period + 1) |->
                     IF k = 1 THEN 0 ELSE lim.log[k - 1]]]
  ELSE lim

advance(lim) ==
  IF lim.cls = "NoneType" THEN lim
  ELSE Shift(leak([lim EXCEPT !.since_check = @ + 1]))

\* ---------------------------------------------- asyncio.Semaphore
\* value: free slots.  waiters: the futures in the deque, as the tasks that
\* wait on them, in arrival order; woken: those whose future has a result
\* (the slot is theirs) and who have not resumed yet.
nullcontext == [cls |-> "nullcontext"]
Semaphore(value) ==
  [cls |-> "Semaphore", value |-> value, waiters |-> <<>>, woken |-> {}]

Pending(s) == SelectSeq(s.waiters, LAMBDA w : w \notin s.woken)

\* Mutant of wake_up_next: the newest waiter gets the slot.
wake_up_newest(s) ==
  IF Pending(s) = <<>> THEN s
  ELSE [s EXCEPT !.value = @ - 1,
                 !.woken = @ \cup {Pending(s)[Len(Pending(s))]}]

\* Mutant of locked: the semaphore never counts as taken.
locked_never(s) == FALSE

locked(s) == s.value = 0 \/ Len(s.waiters) > 0

\* _wake_up_next(): the first future that is not done gets the slot.
wake_up_next(s) ==
  IF Pending(s) = <<>> THEN s
  ELSE [s EXCEPT !.value = @ - 1, !.woken = @ \cup {Head(Pending(s))}]

\* while self._value > 0: if not self._wake_up_next(): break
RECURSIVE wake_while(_)
wake_while(s) ==
  IF s.value > 0 /\ Pending(s) # <<>> THEN wake_while(wake_up_next(s)) ELSE s

\* acquire() up to its first suspension.
sem_acquire(s, task) ==
  IF ~locked(s)
  THEN [res |-> "ok", sem |-> [s EXCEPT !.value = @ - 1]]
  ELSE [res |-> "wait", sem |-> [s EXCEPT !.waiters = Append(@, task)]]

\* acquire() resumes with its future's result.
sem_resume(s, task) ==
  wake_while([s EXCEPT !.waiters = Remove(@, task), !.woken = @ \ {task}])

\* Mutant of sem_cancelled: a slot already handed to the cancelled waiter is
\* not given back.
sem_cancelled_keeps_slot(s, task) ==
  wake_while([s EXCEPT !.waiters = Remove(@, task), !.woken = @ \ {task}])

\* acquire() resumes with CancelledError.
sem_cancelled(s, task) ==
  wake_while([s EXCEPT !.waiters = Remove(@, task), !.woken = @ \ {task},
                       !.value = IF task \in s.woken THEN @ + 1 ELSE @])

release(s) == wake_up_next([s EXCEPT !.value = @ + 1])

\* ------------------------------------------------ RatelimitedEngine
\* The mutable state a call's step reads and writes, as one record.
Current ==
  [rpm |-> rpm_limiter, tpm |-> tpm_limiter, sem |-> concurrency_semaphore,
   pc |-> pc, kind |-> kind, req |-> req, n_toks |-> n_toks,
   trail |-> trail, deducted |-> deducted, slots |-> slots,
   due_in |-> due_in]

Becomes(st) ==
  /\ rpm_limiter' = st.rpm
  /\ tpm_limiter' = st.tpm
  /\ concurrency_semaphore' = st.sem
  /\ pc' = st.pc
  /\ kind' = st.kind
  /\ req' = st.req
  /\ n_toks' = st.n_toks
  /\ trail' = st.trail
  /\ deducted' = st.deducted
  /\ slots' = st.slots
  /\ due_in' = st.due_in

\* What a call of acquire() added to the bucket, over the leak.
Taken(before, after) == after.level - leak(before).level

\* if self.rpm_limiter: await self.rpm_limiter.acquire()
\* (an AsyncLimiter object is always true).  entering: acquire() is being
\* called; otherwise the task resumes inside acquire()'s loop.
AcquireRpm(st, t, entering) ==
  IF st.rpm.cls = "NoneType" THEN [res |-> "ok", st |-> st]
  ELSE LET r == IF entering THEN acquire(st.rpm, t, 1)
                ELSE acquire_loop(st.rpm, t, 1)
           s1 == [st EXCEPT !.rpm = r.lim,
                            !.deducted[t].rpm = @ + Taken(st.rpm, r.lim)]
       IN [res |-> r.res,
           st |-> IF r.res = "ok"
                  THEN [s1 EXCEPT !.trail[t] = Append(@, "rpm")]
                  ELSE s1]

\* if self.tpm_limiter: n_toks = ...; await self.tpm_limiter.acquire(n_toks)
AcquireTpm(st, t, entering) ==
  IF st.tpm.cls = "NoneType" THEN [res |-> "ok", st |-> st]
  ELSE LET n == IF entering THEN TokenCost(st.req[t]) ELSE st.n_toks[t]
           r == IF entering THEN acquire(st.tpm, t, n)
                ELSE acquire_loop(st.tpm, t, n)
           s1 == [st EXCEPT !.tpm = r.lim, !.n_toks[t] = n,
                            !.deducted[t].tpm = @ + Taken(st.tpm, r.lim)]
       IN [res |-> r.res,
           st |-> IF r.res = "ok"
                  THEN [s1 EXCEPT !.trail[t] = Append(@, "tpm")]
                  ELSE s1]

\* async with self.concurrency_semaphore: up to the first suspension.
AcquireGate(st, t) ==
  IF st.sem.cls = "nullcontext"
  THEN [res |-> "ok", st |-> [st EXCEPT !.trail[t] = Append(@, "gate")]]
  ELSE LET r == sem_acquire(st.sem, t)
       IN [res |-> r.res,
           st |-> IF r.res = "ok"
                  THEN [st EXCEPT !.sem = r.sem,
                                  !.slots[t].acquired = @ + 1,
                                  !.trail[t] = Append(@, "gate")]
                  ELSE [st EXCEPT !.sem = r.sem]]

AcquireStage(st, t, stage, entering) ==
  CASE stage = "rpm" -> AcquireRpm(st, t, entering)
    [] stage = "tpm" -> AcquireTpm(st, t, entering)
    [] stage = "gate" -> AcquireGate(st, t)

\* Mutant of NextStage: the semaphore is entered before the token-rate
\* limiter is acquired.
NextStage_gate_before_tpm(stage) ==
  CASE stage = "rpm" -> "gate"
    [] stage = "gate" -> "tpm"
    [] stage = "tpm" -> "engine"

\* The order of the statements of _ratelimit_ctx, and of the call made
\* inside it by predict and stream.
FirstStage == "rpm"
NextStage(stage) ==
  CASE stage = "rpm" -> "tpm"
    [] stage = "tpm" -> "gate"
    [] stage = "gate" -> "engine"

WaitAt(stage) ==
  CASE stage = "rpm" -> "rpm_wait"
    [] stage = "tpm" -> "tpm_wait"
    [] stage = "gate" -> "gate_wait"

\* The call ends with outcome `how`: its arguments and locals are gone.
NoRequest == [messages |-> <<>>, functions |-> NoFunctions]
End(st, t, how) ==
  [st EXCEPT !.pc[t] = how, !.kind[t] = "predict", !.req[t] = NoRequest,
             !.n_toks[t] = 0]

\* The wrapped engine's predict or stream is invoked and awaited.
InvokeEngine(st, t) ==
  [st EXCEPT !.pc[t] = "inflight", !.trail[t] = Append(@, "engine")]

\* A call runs from `stage` until it suspends: in a limiter, at the
\* semaphore, or in the wrapped engine; or until acquire() raises.
RECURSIVE Enter(_, _, _, _)
Enter(st, t, stage, entering) ==
  IF stage = "engine" THEN InvokeEngine(st, t)
  ELSE LET r == AcquireStage(st, t, stage, entering)
       IN CASE r.res = "ok" -> Enter(r.st, t, NextStage(stage), TRUE)
            [] r.res = "wait" -> [r.st EXCEPT !.pc[t] = WaitAt(stage)]
            [] r.res = "ValueError" -> End(r.st, t, "rejected")

\* Mutant of Exit: the slot is released only on a normal return.
Exit_leaks_on_error(st, t, how) ==
  IF st.sem.cls = "nullcontext" \/ how # "returned"
  THEN End(st, t, how)
  ELSE End([st EXCEPT !.sem = release(@), !.slots[t].released = @ + 1],
           t, how)

\* Mutant of Exit: a failed call gives its units back to the limiters.
Exit_refunds(st, t, how) ==
  LET s1 == IF st.sem.cls = "nullcontext" THEN st
            ELSE [st EXCEPT !.sem = release(@), !.slots[t].released = @ + 1]
      s2 == IF how = "failed" /\ s1.rpm.cls = "AsyncLimiter"
            THEN [s1 EXCEPT !.rpm.level = Max(@ - s1.deducted[t].rpm, 0)]
            ELSE s1
      s3 == IF how = "failed" /\ s2.tpm.cls = "AsyncLimiter"
            THEN [s2 EXCEPT !.tpm.level = Max(@ - s2.deducted[t].tpm, 0)]
            ELSE s2
  IN End(s3, t, how)

\* The `async with` block is left, by return or by an exception: the
\* semaphore's __aexit__ releases; nothing is done to the limiters.
Exit(st, t, how) ==
  IF st.sem.cls = "nullcontext"
  THEN End(st, t, how)
  ELSE End([st EXCEPT !.sem = release(@), !.slots[t].released = @ + 1],
           t, how)

Ended == {"idle", "returned", "failed", "cancelled", "closed", "rejected"}

\* Mutant of NewCall: the token cost is computed when the call begins,
\* before any acquire.
NewCall_estimates(t, k, r) ==
  [Current EXCEPT !.kind[t] = k, !.req[t] = r, !.trail[t] = <<>>,
                  !.n_toks[t] = TokenCost(r),
                  !.deducted[t] = [rpm |-> 0, tpm |-> 0],
                  !.slots[t] = [acquired |-> 0, released |-> 0]]

\* A new call: its arguments, and a fresh history.
NewCall(t, k, r) ==
  [Current EXCEPT !.kind[t] = k, !.req[t] = r, !.trail[t] = <<>>,
                  !.deducted[t] = [rpm |-> 0, tpm |-> 0],
                  !.slots[t] = [acquired |-> 0, released |-> 0]]

\* await engine.predict(messages, functions)
Predict(t, r) ==
  /\ pc[t] \in Ended
  /\ Becomes(Enter(NewCall(t, "predict", r), t, FirstStage, TRUE))
  /\ UNCHANGED max_concurrency

\* Mutant of Stream: stream() is a coroutine function that does the
\* admission before it returns the generator.
Stream_eager(t, r) ==
  /\ pc[t] \in Ended
  /\ Becomes(Enter(NewCall(t, "stream", r), t, FirstStage, TRUE))
  /\ UNCHANGED max_concurrency

\* engine.stream(messages, functions): the generator object is created and
\* none of its code runs.
Stream(t, r) ==
  /\ pc[t] \in Ended
  /\ Becomes([NewCall(t, "stream", r) EXCEPT !.pc[t] = "created"])
  /\ UNCHANGED max_concurrency

\* The consumer asks for the first element: the generator starts.
FirstNext(t) ==
  /\ pc[t] = "created"
  /\ Becomes(Enter(Current, t, FirstStage, TRUE))
  /\ UNCHANGED max_concurrency

\* A task suspended in a limiter's acquire() is woken and tries again.
Retry(t) ==
  /\ pc[t] \in {"rpm_wait", "tpm_wait"}
  /\ Becomes(Enter(Current, t, IF pc[t] = "rpm_wait" THEN "rpm" ELSE "tpm",
                   FALSE))
  /\ UNCHANGED max_concurrency

\* A task woken by the semaphore resumes holding its slot.
GateResume(t) ==
  /\ pc[t] = "gate_wait"
  /\ t \in concurrency_semaphore.woken
  /\ Becomes(Enter([Current EXCEPT !.sem = sem_resume(@, t),
                                   !.slots[t].acquired = @ + 1,
                                   !.trail[t] = Append(@, "gate")],
                   t, "engine", TRUE))
  /\ UNCHANGED max_concurrency

\* return await self.engine.predict(...)
EngineReturn(t) ==
  /\ pc[t] = "inflight" /\ kind[t] = "predict"
  /\ Becomes(Exit(Current, t, "returned"))
  /\ UNCHANGED max_concurrency

\* Mutant of EngineFail: the wrapper catches the failure and invokes the
\* wrapped engine again.
EngineFail_retries(t) ==
  /\ pc[t] = "inflight"
  /\ Becomes(InvokeEngine(Current, t))
  /\ UNCHANGED max_concurrency

\* The wrapped engine raises, from predict or in mid-stream.
EngineFail(t) ==
  /\ pc[t] = "inflight"
  /\ Becomes(Exit(Current, t, "failed"))
  /\ UNCHANGED max_concurrency

\* Mutant of EngineChunk: the slot is released when the first element is
\* yielded.
EngineChunk_releases(t) ==
  /\ pc[t] = "inflight" /\ kind[t] = "stream"
  /\ Becomes([Current EXCEPT
                !.pc[t] = "yielded",
                !.sem = IF @.cls = "Semaphore" THEN release(@) ELSE @,
                !.slots[t].released = IF Current.sem.cls = "Semaphore"
                                      THEN @ + 1 ELSE @])
  /\ UNCHANGED max_concurrency

\* async for elem in self.engine.stream(...): yield elem
EngineChunk(t) ==
  /\ pc[t] = "inflight" /\ kind[t] = "stream"
  /\ Becomes([Current EXCEPT !.pc[t] = "yielded"])
  /\ UNCHANGED max_concurrency

\* The wrapped engine's stream ends: the loop and the generator end.
EngineExhaust(t) ==
  /\ pc[t] = "inflight" /\ kind[t] = "stream"
  /\ Becomes(Exit(Current, t, "returned"))
  /\ UNCHANGED max_concurrency

\* The consumer asks for the next element.
NextChunk(t) ==
  /\ pc[t] = "yielded"
  /\ Becomes([Current EXCEPT !.pc[t] = "inflight"])
  /\ UNCHANGED max_concurrency

\* The generator is closed (aclose(), by the consumer or by the event
\* loop's finalizer when the consumer drops it): GeneratorExit is raised at
\* the yield; a generator that never started just ends.
Close(t) ==
  /\ pc[t] \in {"created", "yielded"}
  /\ Becomes(IF pc[t] = "created" THEN End(Current, t, "closed")
             ELSE Exit(Current, t, "closed"))
  /\ UNCHANGED max_concurrency

\* The caller is cancelled at the await where it is suspended.
Cancelled(st, t) ==
  CASE st.pc[t] = "rpm_wait" ->
         End([st EXCEPT !.rpm = acquire_cancelled(@, t)], t, "cancelled")
    [] st.pc[t] = "tpm_wait" ->
         End([st EXCEPT !.tpm = acquire_cancelled(@, t)], t, "cancelled")
    [] st.pc[t] = "gate_wait" ->
         End([st EXCEPT !.sem = sem_cancelled(@, t)], t, "cancelled")
    [] st.pc[t] = "inflight" -> Exit(st, t, "cancelled")

Cancel(t) ==
  /\ pc[t] \in {"rpm_wait", "tpm_wait", "gate_wait", "inflight"}
  /\ Becomes(Cancelled(Current, t))
  /\ UNCHANGED max_concurrency

\* The clock advances by one tick.
Tick ==
  /\ rpm_limiter' = advance(rpm_limiter)
  /\ tpm_limiter' = advance(tpm_limiter)
  /\ UNCHANGED <<max_concurrency, concurrency_semaphore, pc, kind, req,
                 n_toks, trail, deducted, slots, due_in>>

\* Mutant of Construct: with max_concurrency unset the semaphore is made
\* with one slot.
Construct_default_gate(cfg, observed) ==
  /\ max_concurrency = cfg.max_concurrency
  /\ concurrency_semaphore =
       IF cfg.max_concurrency = None THEN Semaphore(1)
       ELSE Semaphore(Val(cfg.max_concurrency))
  /\ rpm_limiter =
       IF cfg.rpm_limit # None
       THEN AsyncLimiter(Val(cfg.rpm_limit), RpmPeriod, observed)
       ELSE NoLimiter
  /\ tpm_limiter =
       IF cfg.tpm_limit # None
       THEN AsyncLimiter(Val(cfg.tpm_limit), TpmPeriod, observed)
       ELSE NoLimiter

\* RatelimitedEngine.__init__
Construct(cfg, observed) ==
  /\ max_concurrency = cfg.max_concurrency
  /\ concurrency_semaphore =
       IF cfg.max_concurrency = None THEN nullcontext
       ELSE Semaphore(Val(cfg.max_concurrency))
  /\ rpm_limiter =
       IF cfg.rpm_limit # None
       THEN AsyncLimiter(Val(cfg.rpm_limit), RpmPeriod, observed)
       ELSE NoLimiter
  /\ tpm_limiter =
       IF cfg.tpm_limit # None
       THEN AsyncLimiter(Val(cfg.tpm_limit), TpmPeriod, observed)
       ELSE NoLimiter

NoCalls ==
  /\ pc = [t \in AllTasks |-> "idle"]
  /\ kind = [t \in AllTasks |-> "predict"]
  /\ req = [t \in AllTasks |-> NoRequest]
  /\ n_toks = [t \in AllTasks |-> 0]
  /\ trail = [t \in AllTasks |-> <<>>]
  /\ deducted = [t \in AllTasks |-> [rpm |-> 0, tpm |-> 0]]
  /\ slots = [t \in AllTasks |-> [acquired |-> 0, released |-> 0]]
  /\ due_in = [t \in AllTasks |-> 0]

Init ==
  /\ \E cfg \in Configurations : Construct(cfg, FALSE)
  /\ NoCalls

Next ==
  \/ \E t \in Tasks, r \in Requests : Predict(t, r)
  \/ \E t \in Tasks, r \in Requests : Stream(t, r)
  \/ \E t \in Tasks : FirstNext(t)
  \/ \E t \in Tasks : Retry(t)
  \/ \E t \in Tasks : GateResume(t)
  \/ \E t \in Tasks : EngineReturn(t)
  \/ \E t \in Tasks : EngineFail(t)
  \/ \E t \in Tasks : EngineChunk(t)
  \/ \E t \in Tasks : EngineExhaust(t)
  \/ \E t \in Tasks : NextChunk(t)
  \/ \E t \in Tasks : Close(t)
  \/ \E t \in Tasks : Cancel(t)
  \/ Tick

Spec == Init /\ [][Next]_vars

\* The engine with one rate limiter, whose admissions are logged, under
\* predict calls (stream calls reach the limiters through the same
\* _ratelimit_ctx).
InitObserved ==
  /\ \E cfg \in OneLimiterConfigurations : Construct(cfg, TRUE)
  /\ NoCalls

NextObserved ==
  \/ \E t \in Tasks, r \in Requests : Predict(t, r)
  \/ \E t \in Tasks : Retry(t)
  \/ \E t \in Tasks : GateResume(t)
  \/ \E t \in Tasks : EngineReturn(t)
  \/ \E t \in Tasks : EngineFail(t)
  \/ \E t \in Tasks : Cancel(t)
  \/ Tick

SpecObserved == InitObserved /\ [][NextObserved]_vars

\* The event loop's scheduling: the clock advances, a task whose timer or
\* future fires runs again, and the wrapped engine's calls end.  A task that
\* finds no capacity when it runs again suspends again.
Fairness ==
  /\ WF_vars(Tick)
  /\ \A t \in Tasks : WF_vars(Retry(t))
  /\ \A t \in Tasks : WF_vars(GateResume(t))
  /\ \A t \in Tasks : WF_vars(EngineReturn(t) \/ EngineFail(t))

\* Predict calls on an engine with one rate limiter and the semaphore,
\* under the event loop's scheduling.
InitFair ==
  /\ \E cfg \in OneLimiterConfigurations : Construct(cfg, FALSE)
  /\ NoCalls

FairSpec == InitFair /\ [][NextObserved]_vars /\ Fairness

\* The engine with a token-rate limit of 4 only, under calls whose messages
\* and functions differ in number and length.
CostRequests ==
  { [messages |-> ms, functions |-> f] :
      ms \in {<<Msg(1)>>, <<Msg(1), Msg(2)>>}, f \in {NoFunctions, Fns(1)} }

InitCost ==
  /\ Construct(Config(None, None, Some(4)), FALSE)
  /\ NoCalls

NextCost ==
  \/ \E t \in Tasks, r \in CostRequests : Predict(t, r)
  \/ \E t \in Tasks, r \in CostRequests : Stream(t, r)
  \/ \E t \in Tasks : FirstNext(t)
  \/ \E t \in Tasks : Retry(t)
  \/ \E t \in Tasks : EngineReturn(t)
  \/ \E t \in Tasks : EngineExhaust(t)
  \/ Tick

SpecCost == InitCost /\ [][NextCost]_vars

\* Constructor arguments with a zero or negative limit.
InvalidConfigurations ==
  { Config(Some(0), Some(2), Some(2)),
    Config(Some(1), Some(0), Some(2)),
    Config(Some(1), Some(2), Some(0)),
    Config(Some(1), Some(-1), Some(2)),
    Config(Some(-1), Some(2), Some(2)) }

\* __init__ returns: it checks nothing itself; asyncio.Semaphore(value)
\* raises ValueError for value < 0, and AsyncLimiter(max_rate, time_period)
\* only divides max_rate by time_period (60 here).
Constructible(cfg) ==
  cfg.max_concurrency = None \/ Val(cfg.max_concurrency) >= 0

\* The engines that exist after a construction with such arguments, under
\* predict calls.  (No call of theirs reaches the wrapped engine.)
InitInvalid ==
  /\ \E cfg \in InvalidConfigurations :
       Constructible(cfg) /\ Construct(cfg, FALSE)
  /\ NoCalls

NextInvalid ==
  \/ \E t \in Tasks, r \in Requests : Predict(t, r)
  \/ \E t \in Tasks : Retry(t)
  \/ \E t \in Tasks : Cancel(t)
  \/ Tick

SpecInvalid == InitInvalid /\ [][NextInvalid]_vars

\* The engine with one rate limiter and no semaphore, on the event loop's
\* clock, under predict calls none of which arrives while another waits.
\* The limiter's waker fires when the first waiter's amount fits, and the
\* woken task runs before the clock goes on.
TimedConfigurations ==
  { Config(None, Some(2), None), Config(None, None, Some(4)) }

Waiting(t) == pc[t] \in {"rpm_wait", "tpm_wait"}

\* (c - a) / (limit / period), in whole ticks, for a request of cost c
\* arriving at the limiter: a is the available amount, max_rate - level.
RefillTime(lim, c) ==
  LET a == lim.max_rate - leak(lim).level
      d == c - a
  IN IF d <= 0 THEN 0
     ELSE (d + rate_per_sec(lim) - 1) \div rate_per_sec(lim)

TimedPredict(t, r) ==
  /\ pc[t] \in Ended
  /\ \A u \in Tasks : ~Waiting(u)
  /\ LET st == Enter(NewCall(t, "predict", r), t, FirstStage, TRUE)
         w == CASE st.pc[t] = "rpm_wait" -> RefillTime(rpm_limiter, 1)
                [] st.pc[t] = "tpm_wait" ->
                     RefillTime(tpm_limiter, TokenCost(r))
                [] OTHER -> 0
     IN Becomes([st EXCEPT !.due_in[t] = w])
  /\ UNCHANGED max_concurrency

WakerDue(lim, amount) ==
  /\ lim.cls = "AsyncLimiter"
  /\ lim.waiters # <<>>
  /\ needed(lim, amount) <= 0

TimedTick ==
  /\ ~WakerDue(rpm_limiter, 1)
  /\ ~(tpm_limiter.cls = "AsyncLimiter" /\ tpm_limiter.waiters # <<>>
        /\ WakerDue(tpm_limiter, n_toks[Head(tpm_limiter.waiters)]))
  /\ rpm_limiter' = advance(rpm_limiter)
  /\ tpm_limiter' = advance(tpm_limiter)
  /\ due_in' = [t \in AllTasks |->
                  IF Waiting(t) THEN Max(due_in[t] - 1, -1) ELSE due_in[t]]
  /\ UNCHANGED <<max_concurrency, concurrency_semaphore, pc, kind, req,
                 n_toks, trail, deducted, slots>>

InitTimed ==
  /\ \E cfg \in TimedConfigurations : Construct(cfg, FALSE)
  /\ NoCalls

NextTimed ==
  \/ \E t \in Tasks, r \in CostRequests : TimedPredict(t, r)
  \/ \E t \in Tasks : Retry(t)
  \/ \E t \in Tasks : EngineReturn(t)
  \/ TimedTick

SpecTimed == InitTimed /\ [][NextTimed]_vars

\* The engine with max_concurrency only, under predict calls of three
\* callers, their cancellation included.
GateConfigurations ==
  { Config(Some(1), None, None), Config(Some(2), None, None) }

GateRequest == [messages |-> <<Msg(1)>>, functions |-> NoFunctions]

InitGate ==
  /\ \E cfg \in GateConfigurations : Construct(cfg, FALSE)
  /\ NoCalls

NextGate ==
  \/ \E t \in GateCallers : Predict(t, GateRequest)
  \/ \E t \in GateCallers : GateResume(t)
  \/ \E t \in GateCallers : EngineReturn(t)
  \/ \E t \in GateCallers : EngineFail(t)
  \/ \E t \in GateCallers : Cancel(t)

SpecGate == InitGate /\ [][NextGate]_vars

\* The same under the event loop's scheduling: a woken task resumes and the
\* wrapped engine's calls end.
FairnessGate ==
  /\ \A t \in GateCallers : WF_vars(GateResume(t))
  /\ \A t \in GateCallers : WF_vars(EngineReturn(t) \/ EngineFail(t))

FairSpecGate == InitGate /\ [][NextGate]_vars /\ FairnessGate

\* ------------------------------------------------------- properties
HasSemaphore == concurrency_semaphore.cls = "Semaphore"
HasRpm == rpm_limiter.cls = "AsyncLimiter"
HasTpm == tpm_limiter.cls = "AsyncLimiter"
Level(lim) == IF lim.cls = "NoneType" THEN 0 ELSE lim.level

\* The wrapped engine's operation has started and has not ended.
InEngine(t) == pc[t] \in {"inflight", "yielded"}

\* Slots taken from the semaphore and not given back.
heldSlots == Val(max_concurrency) - concurrency_semaphore.value

IsPrefix(a, b) == Len(a) <= Len(b) /\ \A i \in 1..Len(a) : a[i] = b[i]

\* The admission steps of a call, in the order of the configured ones.
ConfiguredOrder ==
  (IF HasRpm THEN <<"rpm">> ELSE <<>>) \o (IF HasTpm THEN <<"tpm">> ELSE <<>>)
    \o <<"gate", "engine">>

\* C1: with max_concurrency = N the number of calls whose wrapped-engine
\* operation has started and not ended is between 0 and N, and so is the
\* number of slots taken; with N = 1 no second operation starts before the
\* first call's slot is released.
C1_ConcurrencyBound ==
  max_concurrency # None =>
    /\ Cardinality({t \in Tasks : InEngine(t)}) \in 0..Val(max_concurrency)
    /\ heldSlots \in 0..Val(max_concurrency)

\* C1 witness: N = 1, one call in the wrapped engine and a second one kept
\* waiting at the semaphore.
C1_Witness ==
  /\ max_concurrency = Some(1)
  /\ \E t, u \in Tasks : t # u /\ pc[t] = "inflight" /\ pc[u] = "gate_wait"

\* C2: a call that acquired a slot releases it exactly once, however the
\* guarded operation ends: a call holds at most one slot, holds it while it
\* is in the wrapped engine, has released it when it has ended, and the
\* slots taken are those of the calls that hold one (or were just handed
\* one); when no call is in progress no slot is taken.
C2_ReleasedExactlyOnce ==
  HasSemaphore =>
    /\ \A t \in Tasks :
         /\ slots[t].released <= slots[t].acquired
         /\ slots[t].acquired <= 1
         /\ InEngine(t) => slots[t] = [acquired |-> 1, released |-> 0]
         /\ pc[t] \in Ended => slots[t].released = slots[t].acquired
    /\ heldSlots =
         Cardinality({t \in Tasks : slots[t].acquired > slots[t].released})
           + Cardinality(concurrency_semaphore.woken)
    /\ (\A t \in Tasks : pc[t] \in Ended \cup {"created"}) => heldSlots = 0

\* C2 witness: a call whose wrapped-engine operation failed, with its slot
\* acquired once and released once, and a caller cancelled in the wrapped
\* engine likewise.
C2_Witness ==
  /\ HasSemaphore
  /\ \E t, u \in Tasks :
       /\ pc[t] = "failed" /\ slots[t] = [acquired |-> 1, released |-> 1]
       /\ pc[u] = "cancelled" /\ slots[u] = [acquired |-> 1, released |-> 1]
  /\ heldSlots = 0

\* C3: the admission steps happen in the order request-rate acquire (cost
\* 1), token-rate acquire (cost = token cost), semaphore, wrapped engine:
\* the wrapped engine runs only after every configured admission, and a call
\* waiting on a rate limiter holds no slot and has passed only the steps
\* before it.
C3_AdmissionOrder ==
  \A t \in Tasks :
    /\ IsPrefix(trail[t], ConfiguredOrder)
    /\ InEngine(t) =>
         /\ trail[t] = ConfiguredOrder
         /\ deducted[t].rpm = (IF HasRpm THEN 1 ELSE 0)
         /\ deducted[t].tpm = (IF HasTpm THEN n_toks[t] ELSE 0)
         /\ HasTpm => n_toks[t] = TokenCost(req[t])
    /\ pc[t] = "rpm_wait" => trail[t] = <<>>
    /\ pc[t] = "tpm_wait" => trail[t] = (IF HasRpm THEN <<"rpm">> ELSE <<>>)
    /\ pc[t] \in {"rpm_wait", "tpm_wait"} =>
         /\ slots[t].acquired = 0
         /\ HasSemaphore => ~InSeq(concurrency_semaphore.waiters, t)

\* C3 witness: with every limit configured, one call in the wrapped engine
\* after all three admissions while another waits on the token-rate limiter.
C3_Witness ==
  /\ HasRpm /\ HasTpm /\ HasSemaphore
  /\ \E t, u \in Tasks :
       /\ pc[t] = "inflight" /\ trail[t] = <<"rpm", "tpm", "gate", "engine">>
       /\ pc[u] = "tpm_wait" /\ slots[u].acquired = 0

\* C4: the end of a wrapped-engine call, by success or by failure, leaves
\* the level of both limiters unchanged, and a call made after it deducts a
\* fresh request unit and a fresh token cost.
C4_NoRefund ==
  [][\A t \in Tasks :
       /\ (pc[t] = "inflight" /\ pc'[t] \in {"returned", "failed"}) =>
            /\ Level(rpm_limiter') = Level(rpm_limiter)
            /\ Level(tpm_limiter') = Level(tpm_limiter)
       /\ (pc[t] \in {"returned", "failed"} /\ pc'[t] \notin Ended) =>
            /\ InSeq(trail'[t], "rpm") =>
                 Level(rpm_limiter') = Level(rpm_limiter) + 1
            /\ InSeq(trail'[t], "tpm") =>
                 Level(tpm_limiter') = Level(tpm_limiter) + TokenCost(req'[t])
    ]_vars

\* C4 witness: a call has failed in the wrapped engine and the units it
\* deducted are still in both buckets.
C4_Witness ==
  /\ HasRpm /\ HasTpm
  /\ \E t \in Tasks :
       /\ pc[t] = "failed"
       /\ deducted[t].rpm = 1 /\ deducted[t].tpm > 0
       /\ rpm_limiter.level = 1
       /\ tpm_limiter.level = deducted[t].tpm

\* The amount a limiter admitted in the last k ticks.
AdmittedIn(lim, k) == SumTo(lim.log, k)

WindowAtMostLimit(lim) ==
  lim.cls = "AsyncLimiter" =>
    (lim.spent_before >= lim.max_rate =>
       AdmittedIn(lim, lim.time_period) <= lim.max_rate)

\* C5: once the allowance available at creation is used up (the limiter
\* has admitted max_rate before the window), no window of time_period ticks
\* holds admissions of more than max_rate.
C5_WindowAtMostLimit ==
  WindowAtMostLimit(rpm_limiter) /\ WindowAtMostLimit(tpm_limiter)

\* C6: a stream call holds its slot from admission for as long as the
\* generator is alive, while the wrapped stream is awaited and while an
\* element is out with the consumer, and the step that ends it (exhaustion,
\* failure in mid-stream, close, cancellation) releases the slot once.
C6_StreamHoldsSlot ==
  /\ [](HasSemaphore =>
          /\ \A t \in Tasks :
               (kind[t] = "stream" /\ InEngine(t)) =>
                 slots[t] = [acquired |-> 1, released |-> 0]
          /\ heldSlots >=
               Cardinality({t \in Tasks : kind[t] = "stream" /\ InEngine(t)}))
  /\ [][HasSemaphore =>
          \A t \in Tasks :
            (kind[t] = "stream" /\ InEngine(t)) =>
              \/ /\ pc'[t] \in {"inflight", "yielded"}
                 /\ slots'[t] = slots[t]
              \/ /\ pc'[t] \in {"returned", "failed", "closed", "cancelled"}
                 /\ slots'[t] = [acquired |-> 1, released |-> 1]
     ]_vars

\* C6 witness: a stream has yielded an element, still holds the only slot,
\* and another call is kept waiting at the semaphore.
C6_Witness ==
  /\ max_concurrency = Some(1)
  /\ \E t, u \in Tasks :
       /\ kind[t] = "stream" /\ pc[t] = "yielded"
       /\ slots[t] = [acquired |-> 1, released |-> 0]
       /\ pc[u] = "gate_wait"
  /\ concurrency_semaphore.value = 0

\* A call that was cancelled before the wrapped engine was invoked.
CancelledWaiting(t) == pc[t] = "cancelled" /\ ~InSeq(trail[t], "engine")

\* C7 as stated: a call cancelled while waiting for admission has deducted
\* nothing from any rate limiter and holds no slot.
C7_CancelledConsumedNothing ==
  \A t \in Tasks :
    CancelledWaiting(t) =>
      /\ deducted[t] = [rpm |-> 0, tpm |-> 0]
      /\ slots[t].acquired = 0

\* C7 amended: a call cancelled while waiting for admission holds no slot,
\* is in no queue, and has deducted nothing from the limiter it waited on
\* nor from a later one; what it deducted from a limiter it had passed (the
\* request unit when it waited on the token-rate limiter, both when it
\* waited at the semaphore) stays deducted.
C7_CancelledKeepsPassed ==
  \A t \in Tasks :
    CancelledWaiting(t) =>
      /\ slots[t].acquired = 0
      /\ HasSemaphore =>
           /\ ~InSeq(concurrency_semaphore.waiters, t)
           /\ t \notin concurrency_semaphore.woken
      /\ HasRpm => ~InSeq(rpm_limiter.waiters, t)
      /\ HasTpm => ~InSeq(tpm_limiter.waiters, t)
      /\ deducted[t].rpm = (IF InSeq(trail[t], "rpm") THEN 1 ELSE 0)
      /\ IF InSeq(trail[t], "tpm") THEN deducted[t].tpm >= 1
         ELSE deducted[t].tpm = 0

\* C7 witness: a call cancelled while it waited on the token-rate limiter,
\* with its request unit deducted.
C7_Witness ==
  /\ HasRpm /\ HasTpm
  /\ \E t \in Tasks :
       /\ CancelledWaiting(t)
       /\ trail[t] = <<"rpm">>
       /\ deducted[t] = [rpm |-> 1, tpm |-> 0]

\* C8 as stated: a request whose token cost exceeds tpm_limit is not
\* rejected (it waits and is admitted).
C8_OversizedNotRejected == \A t \in Tasks : pc[t] # "rejected"

\* C8 amended: a request whose token cost exceeds tpm_limit is never
\* admitted by the token-rate limiter and never waits on it: the acquire
\* raises ValueError at once and the call ends there, with no token
\* deducted, no slot and the wrapped engine not invoked (the request unit
\* already deducted stays deducted).
C8_OversizedRejected ==
  HasTpm =>
    \A t \in Tasks :
      /\ pc[t] \in {"tpm_wait", "gate_wait", "inflight", "yielded"} =>
           n_toks[t] <= tpm_limiter.max_rate
      /\ pc[t] \in {"created", "rpm_wait"} \/ InEngine(t)
           \/ pc[t] \in {"tpm_wait", "gate_wait"} => req[t] \in Requests
      /\ (InSeq(trail[t], "tpm") /\ pc[t] \notin Ended) =>
           TokenCost(req[t]) <= tpm_limiter.max_rate
      /\ pc[t] = "rejected" =>
           /\ trail[t] = (IF HasRpm THEN <<"rpm">> ELSE <<>>)
           /\ deducted[t].tpm = 0
           /\ slots[t].acquired = 0

\* C8 witness: a call rejected by the token-rate limiter after its request
\* unit was deducted.
C8_Witness ==
  /\ HasTpm
  /\ \E t \in Tasks : pc[t] = "rejected" /\ deducted[t].rpm = 1

\* C9: under the event loop's fairness every predict call waiting on the
\* token-rate limiter (its cost is within the capacity) is eventually
\* admitted, or cancelled by its caller; at the least the limiter comes to
\* have room for its cost, whatever the other callers do.
C9_NoStarvation ==
  \A t \in Tasks :
    (pc[t] = "tpm_wait" /\ kind[t] = "predict")
      ~> (pc[t] # "tpm_wait" \/ has_capacity(tpm_limiter, n_toks[t]))

\* t passes the token-rate limiter in this step.
PassesTpm(t) ==
  /\ pc[t] \in Ended \cup {"created", "rpm_wait", "tpm_wait"}
  /\ pc'[t] \notin Ended \cup {"created", "rpm_wait", "tpm_wait"}
  /\ InSeq(trail'[t], "tpm")

\* u waits on the token-rate limiter and t arrived after it.
ArrivedAfter(t, u) ==
  /\ t # u
  /\ InSeq(tpm_limiter.waiters, u)
  /\ \A i, j \in 1..Len(tpm_limiter.waiters) :
       (tpm_limiter.waiters[i] = t /\ tpm_limiter.waiters[j] = u) => j < i

\* C10: a caller that arrives later with a smaller cost is not admitted by
\* the token-rate limiter ahead of an earlier, larger request that is still
\* waiting for capacity.
C10_NoOvertaking ==
  [][HasTpm =>
       \A t, u \in Tasks :
         ~ /\ PassesTpm(t)
           /\ ArrivedAfter(t, u)
           /\ pc[u] = "tpm_wait"
           /\ ~has_capacity(tpm_limiter, n_toks[u])
           /\ n_toks'[t] < n_toks[u]
    ]_vars

\* How many times the call invoked the wrapped engine's operation.
Invocations(t) == Len(SelectSeq(trail[t], LAMBDA x : x = "engine"))

\* C11: the wrapped engine's operation is invoked once per admitted call
\* and never again; when it fails, that step ends the call as failed (the
\* exception leaves predict/stream, nothing catches it), without another
\* invocation and without touching the limiters, and the slot is given back:
\* it is free or handed to a waiting call, so a later call can be admitted.
C11_NoRetry ==
  /\ [](\A t \in Tasks :
          /\ Invocations(t) <= 1
          /\ InEngine(t) => Invocations(t) = 1
          /\ pc[t] = "failed" =>
               /\ Invocations(t) = 1
               /\ slots[t].released = slots[t].acquired)
  /\ [][\A t \in Tasks :
          (pc[t] = "inflight" /\ pc'[t] = "failed") =>
            /\ trail'[t] = trail[t]
            /\ rpm_limiter' = rpm_limiter /\ tpm_limiter' = tpm_limiter
            /\ HasSemaphore =>
                 \/ concurrency_semaphore'.value = concurrency_semaphore.value + 1
                 \/ concurrency_semaphore'.woken # concurrency_semaphore.woken
     ]_vars

\* C11 witness: with one slot, a call failed in the wrapped engine after one
\* invocation, and a later call of another caller is in the wrapped engine.
C11_Witness ==
  /\ max_concurrency = Some(1)
  /\ \E t, u \in Tasks :
       /\ pc[t] = "failed" /\ Invocations(t) = 1
       /\ slots[t] = [acquired |-> 1, released |-> 1]
       /\ pc[u] = "inflight"

\* The cost of a request, summed message by message.
ExpectedCost(r) ==
  function_token_reserve(r.functions)
    + SumTo([i \in 1..Len(r.messages) |-> message_len(r.messages[i])],
            Len(r.messages))

\* The call has passed the token-rate limiter and has not ended.
PastTpm(t) == pc[t] \in {"gate_wait", "inflight", "yielded"}

\* C12: a call that passed the token-rate limiter has deducted from it the
\* functions' reserve plus the sum of its messages' lengths, which is its
\* n_toks; a call waiting on the limiter has that n_toks and has deducted
\* nothing; n_toks is not computed again during the call, and the step in
\* which a call passes raises the limiter's level by exactly that amount.
C12_TokenCost ==
  /\ [](HasTpm =>
          \A t \in Tasks :
            /\ PastTpm(t) =>
                 /\ n_toks[t] = ExpectedCost(req[t])
                 /\ deducted[t].tpm = ExpectedCost(req[t])
            /\ pc[t] = "tpm_wait" =>
                 /\ n_toks[t] = ExpectedCost(req[t])
                 /\ deducted[t].tpm = 0)
  /\ [][HasTpm =>
          \A t \in Tasks :
            /\ (pc[t] \in {"tpm_wait"} \cup {"gate_wait", "inflight", "yielded"}
                  /\ pc'[t] \notin Ended) => n_toks'[t] = n_toks[t]
            /\ (~PastTpm(t) /\ PastTpm(t)') =>
                 tpm_limiter'.level
                   = tpm_limiter.level + ExpectedCost(req'[t])
     ]_vars

\* C12 witness: a call with two messages of different lengths and a
\* functions' reserve is in the wrapped engine after a deduction of 4.
C12_Witness ==
  /\ HasTpm
  /\ \E t \in Tasks :
       /\ pc[t] = "inflight"
       /\ Len(req[t].messages) = 2 /\ req[t].functions = Fns(1)
       /\ deducted[t].tpm = 4 /\ n_toks[t] = 4

\* The call has begun its admission and has not ended.
Admitting(t) == pc[t] \notin Ended \cup {"created"}

\* C13 as stated: with a token-rate limiter configured, a call that has
\* begun any acquisition (it waits on the request-rate limiter, or is
\* further) has its token cost computed.
C13_CostBeforeAnyAcquire ==
  HasTpm => \A t \in Tasks : Admitting(t) => n_toks[t] = TokenCost(req[t])

\* C13 amended: the token cost is computed only with a token-rate limiter
\* configured, after the request-rate acquire has returned and before the
\* token-rate acquire and the semaphore: a call waiting on the request-rate
\* limiter has no n_toks yet, a call at or past the token-rate acquire has
\* it and has its request unit deducted, and a call waiting on the
\* token-rate limiter has no slot; without a token-rate limiter no call
\* ever has one.
C13_CostAfterRequestRate ==
  \A t \in Tasks :
    /\ pc[t] \in {"created", "rpm_wait"} => n_toks[t] = 0
    /\ ~HasTpm => n_toks[t] = 0
    /\ (HasTpm /\ (pc[t] = "tpm_wait" \/ PastTpm(t))) =>
         /\ n_toks[t] = TokenCost(req[t])
         /\ n_toks[t] >= 1
         /\ deducted[t].rpm = (IF HasRpm THEN 1 ELSE 0)
    /\ (HasTpm /\ pc[t] = "tpm_wait") =>
         /\ slots[t].acquired = 0
         /\ ~InSeq(trail[t], "gate")

\* C13 witness: with both rate limiters configured, a call waits on the
\* request-rate limiter with no cost computed while another has passed the
\* token-rate limiter with its cost.
C13_Witness ==
  /\ HasRpm /\ HasTpm
  /\ \E t, u \in Tasks :
       /\ pc[t] = "rpm_wait" /\ req[t] \in Requests /\ n_toks[t] = 0
       /\ PastTpm(u) /\ n_toks[u] = TokenCost(req[u])

\* C14: an unconfigured limit never delays a call.  With max_concurrency
\* unset no call waits at the gate or takes a slot; with rpm_limit (resp.
\* tpm_limit) unset no call waits on, passes or is rejected by the
\* request-rate (resp. token-rate) limiter, and nothing is deducted; with
\* all three unset a call that has begun is in the wrapped engine.
C14_UnconfiguredNeverDelays ==
  \A t \in Tasks :
    /\ max_concurrency = None =>
         /\ pc[t] # "gate_wait"
         /\ slots[t] = [acquired |-> 0, released |-> 0]
    /\ ~HasRpm =>
         /\ pc[t] # "rpm_wait"
         /\ ~InSeq(trail[t], "rpm")
         /\ deducted[t].rpm = 0
    /\ ~HasTpm =>
         /\ pc[t] \notin {"tpm_wait", "rejected"}
         /\ ~InSeq(trail[t], "tpm")
         /\ deducted[t].tpm = 0
    /\ (max_concurrency = None /\ ~HasRpm /\ ~HasTpm /\ Admitting(t)) =>
         /\ InEngine(t)
         /\ trail[t] = <<"gate", "engine">>

\* C14 witness: with nothing configured every caller's call is in the
\* wrapped engine at once.
C14_Witness ==
  /\ max_concurrency = None /\ ~HasRpm /\ ~HasTpm
  /\ \A t \in Tasks : pc[t] = "inflight"

\* C15: no failure caused by the configuration first appears at call time:
\* a call is rejected by a rate limiter only when that limiter's limit is
\* positive (the request was too large for a valid limit), and a call
\* waits at the gate only when the gate has at least one slot; an engine
\* with a zero or negative limit does not exist, its construction failed.
C15_InvalidRejectedAtConstruction ==
  \A t \in Tasks :
    /\ pc[t] = "rejected" =>
         /\ HasRpm => rpm_limiter.max_rate >= 1
         /\ HasTpm => tpm_limiter.max_rate >= 1
    /\ pc[t] = "gate_wait" => Val(max_concurrency) >= 1

\* C16: a call that waits on a rate limiter, no other caller contending,
\* is admitted when the time (c - a) / (limit / period) after its arrival
\* has come, not earlier and not later: before that time the limiter has no
\* room for it, at that time it has, and the clock does not pass that time
\* with the call still waiting; a call admitted after a wait was admitted
\* at that time.  With rpm_limit = 2 the wait is less than a full period.
C16_AdmittedWhenRefilled ==
  \A t \in Tasks :
    /\ pc[t] = "rpm_wait" =>
         /\ due_in[t] >= 0
         /\ due_in[t] > 0 <=> ~has_capacity(rpm_limiter, 1)
         /\ due_in[t] < rpm_limiter.time_period
    /\ pc[t] = "tpm_wait" =>
         /\ due_in[t] >= 0
         /\ due_in[t] > 0 <=> ~has_capacity(tpm_limiter, n_toks[t])
    /\ InEngine(t) => due_in[t] = 0

\* C16 witness: rpm_limit = 2; the third of three calls made at once has
\* waited one tick (30 s), the time it was due in, and the limiter now has
\* room for it.
C16_Witness ==
  /\ HasRpm /\ rpm_limiter.max_rate = 2
  /\ \E t \in Tasks :
       /\ pc[t] = "rpm_wait" /\ due_in[t] = 0
       /\ rpm_limiter.level = 1
       /\ has_capacity(rpm_limiter, 1)

\* The amount a limiter can admit now: max_rate less the bucket's level.
Available(lim) == lim.max_rate - leak(lim).level

AvailableInRange(lim) ==
  lim.cls = "AsyncLimiter" =>
    /\ Available(lim) \in 0..lim.max_rate
    /\ (\A t \in Tasks : pc[t] = "idle") => Available(lim) = lim.max_rate

\* C17: each rate limiter's available amount is between 0 and its capacity
\* in every state: it is the capacity when no call has been made, time
\* never raises it above the capacity, and no admission takes it below 0
\* (no call is admitted with a cost above the available amount); what the
\* calls in progress past the token-rate limiter deducted is no more than
\* the capacity less what is available.
C17_AvailableInRange ==
  /\ AvailableInRange(rpm_limiter)
  /\ AvailableInRange(tpm_limiter)
  /\ HasTpm => \A t \in Tasks : PastTpm(t) => n_toks[t] <= tpm_limiter.max_rate

\* C17 witness: the first call made on the engine costs the whole capacity
\* and is in the wrapped engine, nothing being available any more.
C17_Witness ==
  /\ HasTpm
  /\ Available(tpm_limiter) = 0
  /\ \E t \in Tasks :
       /\ pc[t] = "inflight"
       /\ n_toks[t] = tpm_limiter.max_rate
       /\ deducted[t].tpm = tpm_limiter.max_rate
       /\ \A u \in Tasks \ {t} : pc[u] = "idle"

\* The callers ahead of t in the semaphore's queue.
Ahead(s, t) ==
  {s.waiters[i] : i \in {j \in 1..Len(s.waiters) :
                           \E k \in (j + 1)..Len(s.waiters) : s.waiters[k] = t}}

\* C18: slots are granted in the order of arrival at the gate.  In every
\* state the callers whose future was set (the slot is theirs) are ahead, in
\* the queue, of those still waiting for one; a step that hands a slot to a
\* queued caller leaves no caller ahead of it without one; and a caller
\* that arrives gets a slot at once only when the queue is empty.
C18_GateFIFO ==
  /\ [](\A t \in concurrency_semaphore.woken :
          /\ InSeq(concurrency_semaphore.waiters, t)
          /\ Ahead(concurrency_semaphore, t) \subseteq concurrency_semaphore.woken)
  /\ [][\A t \in GateCallers :
          /\ (t \in concurrency_semaphore'.woken
                /\ t \notin concurrency_semaphore.woken) =>
               \A u \in Ahead(concurrency_semaphore, t) :
                 \/ u \in concurrency_semaphore'.woken
                 \/ ~InSeq(concurrency_semaphore'.waiters, u)
          /\ (pc[t] \in Ended /\ pc'[t] = "inflight") =>
               concurrency_semaphore.waiters = <<>>
     ]_vars

\* C18 witness: with one slot, two callers are queued at the gate; the slot
\* just released was handed to the first, the second still waits, and the
\* caller that released it has come back and queued behind them.
C18_Witness ==
  /\ max_concurrency = Some(1)
  /\ Len(concurrency_semaphore.waiters) = 3
  /\ concurrency_semaphore.woken = {concurrency_semaphore.waiters[1]}
  /\ \E t \in GateCallers :
       /\ concurrency_semaphore.waiters[3] = t
       /\ slots[t] = [acquired |-> 0, released |-> 0]
       /\ pc[t] = "gate_wait"

\* The call has done nothing at any admission step.
NothingConsumed(t) ==
  /\ trail[t] = <<>>
  /\ n_toks[t] = 0
  /\ deducted[t] = [rpm |-> 0, tpm |-> 0]
  /\ slots[t] = [acquired |-> 0, released |-> 0]
  /\ HasRpm => ~InSeq(rpm_limiter.waiters, t)
  /\ HasTpm => ~InSeq(tpm_limiter.waiters, t)
  /\ HasSemaphore => ~InSeq(concurrency_semaphore.waiters, t)

\* C19: calling stream() performs no admission.  The step that makes a
\* stream call leaves both limiters and the semaphore as they were and the
\* generator not started; while the first element has not been asked for,
\* the call has deducted nothing, holds no slot, waits nowhere and has not
\* started the wrapped engine's stream; and closing a generator that was
\* never iterated changes nothing either.
C19_StreamIsLazy ==
  /\ [](\A t \in Tasks : pc[t] = "created" => NothingConsumed(t))
  /\ [][\A t \in Tasks :
          /\ (pc[t] \in Ended /\ kind'[t] = "stream") =>
               /\ pc'[t] = "created"
               /\ rpm_limiter' = rpm_limiter
               /\ tpm_limiter' = tpm_limiter
               /\ concurrency_semaphore' = concurrency_semaphore
          /\ (pc[t] = "created" /\ pc'[t] = "closed") =>
               /\ NothingConsumed(t)'
               /\ rpm_limiter' = rpm_limiter
               /\ tpm_limiter' = tpm_limiter
               /\ concurrency_semaphore' = concurrency_semaphore
     ]_vars

\* C19 witness: with every limit configured, one caller's stream was
\* created and closed without being iterated, another's is created and not
\* iterated, and the limiters and the semaphore are untouched.
C19_Witness ==
  /\ HasRpm /\ HasTpm /\ HasSemaphore
  /\ rpm_limiter.level = 0 /\ tpm_limiter.level = 0
  /\ concurrency_semaphore.value = Val(max_concurrency)
  /\ \E t, u \in Tasks :
       /\ pc[t] = "created" /\ req[t] \in Requests
       /\ pc[u] = "closed" /\ NothingConsumed(u)

\* Callers at the gate whose future is not set.
Stranded == Pending(concurrency_semaphore)

GateAccounts ==
  /\ concurrency_semaphore.value >= 0
  /\ concurrency_semaphore.value
       + Cardinality(concurrency_semaphore.woken)
       + Cardinality({t \in GateCallers : InEngine(t)})
       = Val(max_concurrency)
  /\ (Stranded # <<>> /\ concurrency_semaphore.value > 0)
       => concurrency_semaphore.woken # {}
  /\ \A t \in GateCallers :
       /\ pc[t] = "gate_wait" <=> InSeq(concurrency_semaphore.waiters, t)
       /\ t \in concurrency_semaphore.woken => pc[t] = "gate_wait"

\* C20: cancelling a caller that waits for a slot loses neither a slot nor
\* a wake-up.  Free slots, slots handed to woken callers and slots of calls
\* in the wrapped engine always add up to max_concurrency; a caller waits
\* without a slot while one is free only as long as a woken caller has yet
\* to resume (and wake it); the queue holds exactly
\* the callers waiting at the gate; and, the wrapped engine's calls ending
\* and woken tasks resuming, every caller waiting at the gate gets its slot
\* or is cancelled.
C20_NoLostWakeup ==
  /\ []GateAccounts
  /\ \A t \in GateCallers :
       (pc[t] = "gate_wait") ~> (pc[t] \in {"inflight", "cancelled"})

\* C20 witness: with one slot, the caller the slot had been handed to was
\* cancelled before it resumed, and the slot went on to the next caller in
\* the queue, who holds it in the wrapped engine.
C20_Witness ==
  /\ max_concurrency = Some(1)
  /\ \E t, u \in GateCallers :
       /\ pc[t] = "cancelled" /\ trail[t] = <<>>
       /\ slots[t] = [acquired |-> 0, released |-> 0]
       /\ pc[u] = "inflight"
       /\ \A v \in GateCallers \ {t, u} : pc[v] \in {"returned", "failed"}
  /\ concurrency_semaphore.value = 0

====
